---- MODULE Spec2Model ----
(***************************************************************************)
(* Model of the quickstart notebooks of fiddler-examples: the image        *)
(* monitoring notebook (embedding extraction, baseline packaging, event    *)
(* batch publishing) and the baseline packaging of the NLP notebook.       *)
(*                                                                         *)
(* A dataframe is a record [ok, index, blocks]: index is the sequence of   *)
(* row labels and blocks the column blocks it was concatenated from, each  *)
(* [columns |-> names, vals |-> one value per row].  The numeric content   *)
(* of an embedding, score or label row is a function of the image it was   *)
(* computed from, so a row value is the id of that image.                  *)
(* Times are in hours (the source's milliseconds divided by 60*60*1e3);    *)
(* the clock is read in ticks of 1/TicksPerHour hour.                      *)
(***************************************************************************)
EXTENDS Integers, Sequences, FiniteSets, TLC

\* ---- bounds of the model ------------------------------------------------
MaxBatches == 3        \* batches of a dataloader given to generate_embeddings
MaxBatchSize == 2      \* images per batch of such a dataloader
MaxN == 4              \* the argument n of generate_embeddings

\* ---- generic helpers ------------------------------------------------------
Min(a, b) == IF a <= b THEN a ELSE b

Max(a, b) == IF a >= b THEN a ELSE b

Range(s) == {s[j] : j \in DOMAIN s}

NoDup(s) == Cardinality(Range(s)) = Len(s)

\* python's s[:k]
Take(s, k) == SubSeq(s, 1, IF k >= 0 THEN Min(k, Len(s)) ELSE Max(Len(s) + k, 0))

\* python's range(k) as a sequence 0, 1, .., k-1
PyRange(k) == [j \in 1..k |-> j - 1]

RECURSIVE Flatten(_)
Flatten(ss) == IF ss = <<>> THEN <<>> ELSE Head(ss) \o Flatten(Tail(ss))

RECURSIVE SumSeq(_)
SumSeq(s) == IF s = <<>> THEN 0 ELSE Head(s) + SumSeq(Tail(s))

\* ---- numpy arrays and pandas dataframes -----------------------------------
NaN == -1

\* a local variable that has not been assigned yet
Unbound == [bound |-> FALSE, rows |-> <<>>, width |-> 0]

NdArray(rows, width) == [bound |-> TRUE, rows |-> rows, width |-> width]

\* np.concatenate((a, b)) along axis 0
NpConcatenate(a, b) == NdArray(a.rows \o b.rows, a.width)

\* a[:k]
NpSlice(a, k) == NdArray(Take(a.rows, k), a.width)

NoDF == [ok |-> FALSE, index |-> <<>>, blocks |-> <<>>]

\* pd.DataFrame(data, columns=columns): a RangeIndex, one block; the
\* constructor raises ValueError when the shape does not match the columns
DataFrame(rows, width, columns) ==
    IF width # Len(columns) THEN NoDF
    ELSE [ok |-> TRUE, index |-> PyRange(Len(rows)),
          blocks |-> << [columns |-> columns, vals |-> rows] >>]

Columns(df) == Flatten([b \in DOMAIN df.blocks |-> df.blocks[b].columns])

NRows(df) == Len(df.index)

PadTo(vals, m) == [j \in 1..m |-> IF j <= Len(vals) THEN vals[j] ELSE NaN]

\* pd.concat(dfs, axis='columns', ignore_index=False) of frames that all have
\* a RangeIndex: an outer join on the index, the shorter frames padded with NaN
ConcatColumns(dfs) ==
    LET m == CHOOSE k \in {NRows(dfs[d]) : d \in DOMAIN dfs} :
                 \A d \in DOMAIN dfs : NRows(dfs[d]) <= k
        bl == Flatten([d \in DOMAIN dfs |-> dfs[d].blocks])
    IN [ok |-> \A d \in DOMAIN dfs : dfs[d].ok,
        index |-> PyRange(m),
        blocks |-> [b \in DOMAIN bl |->
                      [columns |-> bl[b].columns, vals |-> PadTo(bl[b].vals, m)]]]

\* ---- image notebook: constants of the pretrained network ------------------
\* nn.Linear(512, 128): width of the output of fc[0]
FC1_OUT == 128

\* nn.Linear(128, 10): width of the output of the network
FC_OUT == 10

\* variant: the class list in another order
CIFAR_CLASSES_m ==
    << "car", "plane", "bird", "cat", "deer", "dog", "frog", "horse", "ship", "truck" >>


CIFAR_CLASSES ==
    << "plane", "car", "bird", "cat", "deer", "dog", "frog", "horse", "ship", "truck" >>

\* variant: the prefix of the names lacks the underscore
ge_embedding_cols_m == [j \in 1..128 |-> "emb" \o ToString(j - 1)]

\* ['emb_'+str(i) for i in range(128)] inside generate_embeddings
ge_embedding_cols == [j \in 1..128 |-> "emb_" \o ToString(j - 1)]

ExceptionKinds == {"RuntimeError", "OSError"}

VARIABLES
    input_df,                 \* the argument of FiddlerModel.get_ig_baseline
    events_csv,               \* the events CSV file the NLP notebook downloads
    last_call,                \* the last call the notebook made on the Fiddler client
    fs,                       \* directories and files of the working directory
    features,                 \* the feature list handed to ModelInfo.from_dataset_info
    pc,                       \* position of the running notebook
    error,                    \* the uncaught exception, "" when none
    hooks,                    \* forward hooks registered on model.fc[0]
    view_fc1_output_embeds,   \* global written by fc1_hook_func
    exc_e,                    \* the exception bound by 'except Exception as e'
    dataloader,               \* argument: the batches, each a sequence of image ids
    n,                        \* argument
    i,                        \* batches consumed by the loop
    fc1_embeds, output_scores, target,   \* locals of generate_embeddings
    images_processed,
    ge_ret,                   \* the dataframe generate_embeddings returned
    ge_return,                \* where the call returns to
    service,                  \* what the hosted service holds
    published,                \* the batches the service has received, in order
    train_images, test_images,   \* sizes of the CIFAR-10 train and test sets
    baseline_df, dataset_info, embedding_cols, CF1, model_info,
    i_week,                   \* the i of the publish cell's outer loop
    day, clock, now, timestamp, prod_df, events_df,
    baseline_csv,             \* NLP notebook: the frame read from the baseline CSV
    n_terms,                  \* NLP notebook: terms the vectorizer's filters keep
    base_series, vectorized_df

ge_vars == << hooks, view_fc1_output_embeds, exc_e, dataloader, n, i, fc1_embeds,
              output_scores, target, images_processed, ge_ret, ge_return >>

nlp_vars == << baseline_csv, events_csv, input_df, n_terms, base_series, vectorized_df >>

nb_vars == << service, last_call, fs, features, published, train_images, test_images,
              baseline_df, dataset_info, embedding_cols, CF1, model_info, i_week, day,
              clock, now, timestamp, prod_df, events_df, nlp_vars >>

vars == << pc, error, ge_vars, nb_vars >>

\* ---- generate_embeddings --------------------------------------------------
\* fc1_hook_func: every registered hook stores the output of fc[0]
fc1_hook_func(batch) == NdArray(batch, FC1_OUT)

\* entry of a call: the caller binds the arguments and the locals are fresh
GE_Call(dl, nn, ret) ==
    /\ dataloader' = dl
    /\ n' = nn
    /\ ge_return' = ret
    /\ i' = 0
    /\ fc1_embeds' = Unbound
    /\ output_scores' = Unbound
    /\ target' = Unbound
    /\ images_processed' = 0
    /\ ge_ret' = NoDF

\* model.eval(); fc1_module.register_forward_hook(fc1_hook_func)
GE_Register ==
    /\ pc = "ge_enter"
    /\ hooks' = hooks + 1
    /\ pc' = "ge_loop"
    /\ UNCHANGED << error, view_fc1_output_embeds, exc_e, dataloader, n, i, fc1_embeds,
                    output_scores, target, images_processed, ge_ret, ge_return,
                    nb_vars >>

\* variant: the loop breaks only when the count exceeds n
GE_Forward_m ==
    /\ pc = "ge_loop"
    /\ i < Len(dataloader)
    /\ LET batch == dataloader[i + 1]
           embeds == IF hooks > 0 THEN fc1_hook_func(batch) ELSE view_fc1_output_embeds
           outputs_smax == NdArray(batch, FC_OUT)
           labels == NdArray(batch, 1)
       IN /\ view_fc1_output_embeds' = embeds
          /\ IF i = 0
             THEN /\ fc1_embeds' = embeds
                  /\ output_scores' = outputs_smax
                  /\ target' = labels
             ELSE /\ fc1_embeds' = NpConcatenate(fc1_embeds, embeds)
                  /\ output_scores' = NpConcatenate(output_scores, outputs_smax)
                  /\ target' = NpConcatenate(target, labels)
          /\ images_processed' = images_processed + Len(batch)
          /\ i' = i + 1
          /\ pc' = IF images_processed + Len(batch) > n THEN "ge_build" ELSE "ge_loop"
    /\ UNCHANGED << error, hooks, exc_e, dataloader, n, ge_ret, ge_return, nb_vars >>

\* one iteration of the for loop whose forward pass succeeds
GE_Forward ==
    /\ pc = "ge_loop"
    /\ i < Len(dataloader)
    /\ LET batch == dataloader[i + 1]
           embeds == IF hooks > 0 THEN fc1_hook_func(batch) ELSE view_fc1_output_embeds
           outputs_smax == NdArray(batch, FC_OUT)
           labels == NdArray(batch, 1)
       IN /\ view_fc1_output_embeds' = embeds
          /\ IF i = 0
             THEN /\ fc1_embeds' = embeds
                  /\ output_scores' = outputs_smax
                  /\ target' = labels
             ELSE /\ fc1_embeds' = NpConcatenate(fc1_embeds, embeds)
                  /\ output_scores' = NpConcatenate(output_scores, outputs_smax)
                  /\ target' = NpConcatenate(target, labels)
          /\ images_processed' = images_processed + Len(batch)
          /\ i' = i + 1
          /\ pc' = IF images_processed + Len(batch) >= n THEN "ge_build" ELSE "ge_loop"
    /\ UNCHANGED << error, hooks, exc_e, dataloader, n, ge_ret, ge_return, nb_vars >>

\* one iteration of the for loop that raises: control enters the except clause
GE_ForwardRaises ==
    /\ pc = "ge_loop"
    /\ i < Len(dataloader)
    /\ \E e \in ExceptionKinds : exc_e' = e
    /\ pc' = "ge_except"
    /\ UNCHANGED << error, hooks, view_fc1_output_embeds, dataloader, n, i,
                    fc1_embeds, output_scores, target, images_processed, ge_ret,
                    ge_return, nb_vars >>

\* variant: the except clause re-raises and leaves the hook registered
GE_Except_m ==
    /\ pc = "ge_except"
    /\ error' = exc_e
    /\ pc' = "aborted"
    /\ UNCHANGED << hooks, view_fc1_output_embeds, exc_e, dataloader, n, i,
                    fc1_embeds, output_scores, target, images_processed, ge_ret,
                    ge_return, nb_vars >>

\* except Exception as e: fc1_hook.remove(); raise
GE_Except ==
    /\ pc = "ge_except"
    /\ hooks' = hooks - 1
    /\ error' = exc_e
    /\ pc' = "aborted"
    /\ UNCHANGED << view_fc1_output_embeds, exc_e, dataloader, n, i, fc1_embeds,
                    output_scores, target, images_processed, ge_ret, ge_return,
                    nb_vars >>

\* the dataloader is exhausted: the for loop ends without break
GE_LoopEnd ==
    /\ pc = "ge_loop"
    /\ i = Len(dataloader)
    /\ pc' = "ge_build"
    /\ UNCHANGED << error, ge_vars, nb_vars >>

\* variant: the prediction scores are not cut to n rows
GE_Frame_m(embeds, scores, tgt, nn) ==
    LET embs == NpSlice(embeds, nn)
        labels == NpSlice(tgt, nn)
        baseline_embeddings == DataFrame(embs.rows, embs.width, ge_embedding_cols)
        baseline_predictions == DataFrame(scores.rows, scores.width, CIFAR_CLASSES)
        baseline_labels == DataFrame(labels.rows, 1, << "target" >>)
    IN ConcatColumns(<< baseline_embeddings, baseline_predictions, baseline_labels >>)

\* the dataframe the statements after the loop build
GE_Frame(embeds, scores, tgt, nn) ==
    LET embs == NpSlice(embeds, nn)
        labels == NpSlice(tgt, nn)
        preds == NpSlice(scores, nn)
        baseline_embeddings == DataFrame(embs.rows, embs.width, ge_embedding_cols)
        baseline_predictions == DataFrame(preds.rows, preds.width, CIFAR_CLASSES)
        baseline_labels == DataFrame(labels.rows, 1, << "target" >>)
    IN ConcatColumns(<< baseline_embeddings, baseline_predictions, baseline_labels >>)

\* variant: a call that saw no batch returns an empty frame
GE_Build_m ==
    /\ pc = "ge_build"
    /\ ge_ret' = GE_Frame(NdArray(fc1_embeds.rows, FC1_OUT),
                          NdArray(output_scores.rows, FC_OUT),
                          NdArray(target.rows, 1), n)
    /\ pc' = ge_return
    /\ error' = error
    /\ UNCHANGED << hooks, view_fc1_output_embeds, exc_e, dataloader, n, i, fc1_embeds,
                    output_scores, target, images_processed, ge_return, nb_vars >>

\* the statements after the loop, up to the return
GE_Build ==
    /\ pc = "ge_build"
    /\ IF ~fc1_embeds.bound
       THEN /\ error' = "UnboundLocalError"
            /\ pc' = "aborted"
            /\ ge_ret' = ge_ret
       ELSE LET df == GE_Frame(fc1_embeds, output_scores, target, n)
            IN IF df.ok
               THEN /\ ge_ret' = df
                    /\ pc' = ge_return
                    /\ error' = error
               ELSE /\ error' = "ValueError"
                    /\ pc' = "aborted"
                    /\ ge_ret' = ge_ret
    /\ UNCHANGED << hooks, view_fc1_output_embeds, exc_e, dataloader, n, i, fc1_embeds,
                    output_scores, target, images_processed, ge_return, nb_vars >>

GE_Next ==
    GE_Register \/ GE_Forward \/ GE_ForwardRaises \/ GE_Except \/ GE_LoopEnd \/ GE_Build

\* ---- image notebook: the cells -------------------------------------------
PROJECT_ID == "image_monitoring"

DATASET_ID == "cifar10_baseline"

MODEL_ID == "resnet18"

\* batch_size of the dataloaders
batch_size == 32

\* the default of the argument n of generate_embeddings
DefaultN == 100000

\* range(week_days)
week_days == 6

\* prod_df.sample(1000)
SampleSize == 1000

DriftTypes == << "original", "blurred", "brightness_reduced" >>

\* variant: the weeks are counted from the first drift type
week_offset_m(iw) == iw * 7 * 24

\* (2-i)*7*24*60*60*1e3 milliseconds, in hours
week_offset(iw) == (2 - iw) * 7 * 24

\* 24*60*60*1e3 milliseconds, in hours
day_offset == 24

\* ticks of the clock per hour: the resolution below that of int(..)
TicksPerHour == 2

\* the day, counted from the epoch, on which the run starts: the clock is
\* past the 19 days the oldest batch is stamped back
StartDay == 20

\* images of the train set (two batches)
TrainImages == 33

\* images of the test set beyond the size of a sample
ExtraImages == 1

\* the offsets of the samples that are drawn
MaxSampleOffset == 1

DayTicks == day_offset * TicksPerHour

\* the clock at the start of the run, in ticks
StartClock == StartDay * DayTicks

\* what the clock may have advanced by between two readings, and in a run
ClockSteps == {0, DayTicks - 1, DayTicks + 1}

MaxElapsed == DayTicks + 1

\* int(x / TicksPerHour): truncation towards zero
TruncDiv(a, b) == IF a >= 0 THEN a \div b ELSE -((-a) \div b)

\* variant: the days are counted forwards
Timestamp_m(nw, iw, d) ==
    TruncDiv(nw - (week_offset(iw) - d * day_offset) * TicksPerHour, TicksPerHour)

\* int(now - week_offset - day*day_offset)
Timestamp(nw, iw, d) ==
    TruncDiv(nw - (week_offset(iw) + d * day_offset) * TicksPerHour, TicksPerHour)

\* torch.utils.data.DataLoader(dataset, batch_size=bs): the images in order,
\* bs to a batch, the last batch holding the rest
CifarLoader(images, bs) ==
    [b \in 1..((images + bs - 1) \div bs) |->
        [j \in 1..Min(bs, images - (b - 1) * bs) |-> (b - 1) * bs + j - 1]]

\* variant: the rows are drawn with replacement
Sample_m(df, k, o) ==
    LET pos == [j \in 1..k |-> ((o + j - 1) % (k - 1)) + 1]
    IN [ok |-> TRUE,
        index |-> [j \in 1..k |-> df.index[pos[j]]],
        blocks |-> [b \in DOMAIN df.blocks |->
                      [columns |-> df.blocks[b].columns,
                       vals |-> [j \in 1..k |-> df.blocks[b].vals[pos[j]]]]]]

\* df.sample(k): k rows without replacement, k > len(df) raises ValueError;
\* the rows drawn are those at the k positions that follow position o
Sample(df, k, o) ==
    LET pos == [j \in 1..k |-> ((o + j - 1) % NRows(df)) + 1]
    IN [ok |-> TRUE,
        index |-> [j \in 1..k |-> df.index[pos[j]]],
        blocks |-> [b \in DOMAIN df.blocks |->
                      [columns |-> df.blocks[b].columns,
                       vals |-> [j \in 1..k |-> df.blocks[b].vals[pos[j]]]]]]

\* variant: every row gets a timestamp of its own
SetColumn_rows(df, name, v) ==
    [df EXCEPT !.blocks = Append(df.blocks,
        [columns |-> << name >>, vals |-> [j \in 1..NRows(df) |-> v - j]])]

\* variant: the column is stored under another name
SetColumn_name(df, name, v) ==
    [df EXCEPT !.blocks = Append(df.blocks,
        [columns |-> << "time" >>, vals |-> [j \in 1..NRows(df) |-> v]])]

\* df[name] = v for a scalar v: every row gets v; a new column goes last
SetColumn(df, name, v) ==
    LET col == [columns |-> << name >>, vals |-> [j \in 1..NRows(df) |-> v]]
    IN IF \E b \in DOMAIN df.blocks : df.blocks[b].columns = << name >>
       THEN [df EXCEPT !.blocks = [b \in DOMAIN df.blocks |->
                IF df.blocks[b].columns = << name >> THEN col ELSE df.blocks[b]]]
       ELSE [df EXCEPT !.blocks = Append(df.blocks, col)]

\* the values of a column
ColumnVals(df, name) ==
    LET b == CHOOSE b \in DOMAIN df.blocks :
                 \E c \in DOMAIN df.blocks[b].columns : df.blocks[b].columns[c] = name
    IN df.blocks[b].vals

NoInfo == [defined |-> FALSE, columns |-> <<>>]

NoCF == [custom_name |-> "", columns |-> <<>>, n_clusters |-> 0]

NoModelInfo == [defined |-> FALSE, dataset_id |-> "", features |-> <<>>, target |-> "",
                outputs |-> <<>>, custom_features |-> <<>>]

\* an empty working directory
NoFS == [dirs |-> {}, files |-> {}]

EmptyService == [projects |-> {}, datasets |-> {}, models |-> {}, artifacts |-> {}]

\* what an earlier execution of the notebook may have left in the service
PriorServices ==
    { EmptyService,
      [EmptyService EXCEPT !.projects = {PROJECT_ID}],
      [EmptyService EXCEPT !.projects = {PROJECT_ID}, !.datasets = {DATASET_ID}],
      [EmptyService EXCEPT !.projects = {PROJECT_ID}, !.datasets = {DATASET_ID},
                           !.models = {MODEL_ID}] }

\* an uncaught exception halts the notebook
Raise(e) == error' = e /\ pc' = "aborted"

RaiseAny == \E e \in ExceptionKinds : Raise(e)

loop_vars == << i_week, day, clock, now, timestamp, prod_df, events_df >>

\* a call on the Fiddler client and the IDs it names
Call(op, project_id, dataset_id, model_id) ==
    [op |-> op, project_id |-> project_id, dataset_id |-> dataset_id,
     model_id |-> model_id]

NoCall == Call("", "", "", "")

\* variant: the cell goes on without creating the missing project
GuardedCreateProject_m(project_id, next) ==
    \/ /\ last_call' = Call("list_projects", "", "", "")
       /\ service' = service
       /\ pc' = next
       /\ error' = error
    \/ /\ last_call' = Call("list_projects", "", "", "")
       /\ RaiseAny
       /\ service' = service

\* if not PROJECT_ID in client.list_projects(): client.create_project(PROJECT_ID)
GuardedCreateProject(project_id, next) ==
    \/ /\ project_id \notin service.projects
       /\ last_call' = Call("create_project", project_id, "", "")
       /\ \/ /\ service' = [service EXCEPT !.projects = @ \cup {project_id}]
             /\ pc' = next
             /\ error' = error
          \/ RaiseAny /\ service' = service
    \/ /\ project_id \in service.projects
       /\ last_call' = Call("list_projects", "", "", "")
       /\ service' = service
       /\ pc' = next
       /\ error' = error
    \/ /\ last_call' = Call("list_projects", "", "", "")
       /\ RaiseAny
       /\ service' = service

\* variant: the dataset is uploaded without asking whether it exists
GuardedUploadDataset_m(project_id, dataset_id, next) ==
    /\ last_call' = Call("upload_dataset", project_id, dataset_id, "")
    /\ \/ /\ service' = [service EXCEPT !.datasets = @ \cup {dataset_id}]
          /\ pc' = next
          /\ error' = error
       \/ RaiseAny /\ service' = service

\* if not DATASET_ID in client.list_datasets(project_id=PROJECT_ID):
\*     client.upload_dataset(project_id=.., dataset_id=.., dataset=.., info=..)
GuardedUploadDataset(project_id, dataset_id, next) ==
    \/ /\ dataset_id \notin service.datasets
       /\ last_call' = Call("upload_dataset", project_id, dataset_id, "")
       /\ \/ /\ service' = [service EXCEPT !.datasets = @ \cup {dataset_id}]
             /\ pc' = next
             /\ error' = error
          \/ RaiseAny /\ service' = service
    \/ /\ dataset_id \in service.datasets
       /\ last_call' = Call("list_datasets", project_id, "", "")
       /\ service' = service
       /\ pc' = next
       /\ error' = error
    \/ /\ last_call' = Call("list_datasets", project_id, "", "")
       /\ RaiseAny
       /\ service' = service

\* client.add_model(project_id=.., dataset_id=.., model_id=.., model_info=..):
\* the service rejects a model ID it already holds
ClientAddModel(project_id, dataset_id, model_id, next) ==
    /\ last_call' = Call("add_model", project_id, dataset_id, model_id)
    /\ \/ /\ model_id \notin service.models
          /\ service' = [service EXCEPT !.models = @ \cup {model_id}]
          /\ pc' = next
          /\ error' = error
       \/ /\ model_id \in service.models
          /\ Raise("Conflict")
          /\ service' = service
       \/ RaiseAny /\ service' = service

\* the first cell of the image notebook
CreateProject ==
    /\ pc = "create_project"
    /\ GuardedCreateProject(PROJECT_ID, "baseline")
    /\ UNCHANGED << ge_vars, fs, features, published, train_images, test_images,
                    baseline_df, dataset_info, embedding_cols, CF1, model_info,
                    loop_vars, nlp_vars >>

\* baseline_df = generate_embeddings(resnet_model, device, trainloader): the call
BaselineCall ==
    /\ pc = "baseline"
    /\ GE_Call(CifarLoader(train_images, batch_size), DefaultN, "baseline_ret")
    /\ pc' = "ge_enter"
    /\ UNCHANGED << error, hooks, view_fc1_output_embeds, exc_e, nb_vars >>

\* baseline_df = generate_embeddings(..): the assignment of the result
BaselineAssign ==
    /\ pc = "baseline_ret"
    /\ baseline_df' = ge_ret
    /\ pc' = "upload_dataset"
    /\ UNCHANGED << error, ge_vars, service, last_call, fs, features, published,
                    train_images, test_images, dataset_info, embedding_cols, CF1,
                    model_info, loop_vars, nlp_vars >>

\* fdl.DatasetInfo.from_dataframe(baseline_df)
DatasetInfoFromDataframe(df) == [defined |-> TRUE, columns |-> Columns(df)]

\* dataset_info = ..; if not DATASET_ID in client.list_datasets(..): upload_dataset
UploadDataset ==
    /\ pc = "upload_dataset"
    /\ dataset_info' = DatasetInfoFromDataframe(baseline_df)
    /\ GuardedUploadDataset(PROJECT_ID, DATASET_ID, "custom_feature")
    /\ UNCHANGED << ge_vars, fs, features, published, train_images, test_images,
                    baseline_df, embedding_cols, CF1, model_info, loop_vars,
                    nlp_vars >>

\* embedding_cols = ['emb_'+str(i) for i in range(128)]
EmbeddingCols == [j \in 1..128 |-> "emb_" \o ToString(j - 1)]

\* fdl.CustomFeature.from_columns(cols, n_clusters=10, custom_name='fc1_embedding')
CustomFeatureFromColumns(cols) ==
    [custom_name |-> "fc1_embedding", columns |-> cols, n_clusters |-> 10]

CustomFeatureCell ==
    /\ pc = "custom_feature"
    /\ embedding_cols' = EmbeddingCols
    /\ CF1' = CustomFeatureFromColumns(EmbeddingCols)
    /\ pc' = "model_info"
    /\ UNCHANGED << error, ge_vars, service, last_call, fs, features, published,
                    train_images, test_images, baseline_df, dataset_info, model_info,
                    loop_vars, nlp_vars >>

\* fdl.ModelInfo.from_dataset_info(dataset_info=.., dataset_id=DATASET_ID,
\* features=embedding_cols, target='target', outputs=CIFAR_CLASSES,
\* custom_features=[CF1], ..)
ModelInfoFromDatasetInfo(cols, cf) ==
    [defined |-> TRUE, dataset_id |-> DATASET_ID, features |-> cols,
     target |-> "target", outputs |-> CIFAR_CLASSES, custom_features |-> << cf >>]

ModelInfoCell ==
    /\ pc = "model_info"
    /\ model_info' = ModelInfoFromDatasetInfo(embedding_cols, CF1)
    /\ pc' = "add_model"
    /\ UNCHANGED << error, ge_vars, service, last_call, fs, features, published,
                    train_images, test_images, baseline_df, dataset_info,
                    embedding_cols, CF1, loop_vars, nlp_vars >>

\* variant: the cell empties the feature list of the descriptor after sending it
AddModel_m ==
    /\ pc = "add_model"
    /\ ClientAddModel(PROJECT_ID, DATASET_ID, MODEL_ID, "week_loop")
    /\ model_info' = [model_info EXCEPT !.features = <<>>]
    /\ UNCHANGED << ge_vars, fs, features, published, train_images, test_images,
                    baseline_df, dataset_info, embedding_cols, CF1, loop_vars,
                    nlp_vars >>

\* client.add_model(..) of the image notebook: not guarded
AddModel ==
    /\ pc = "add_model"
    /\ ClientAddModel(PROJECT_ID, DATASET_ID, MODEL_ID, "week_loop")
    /\ UNCHANGED << ge_vars, fs, features, published, train_images, test_images,
                    baseline_df, dataset_info, embedding_cols, CF1, model_info,
                    loop_vars, nlp_vars >>

\* for i, drift_type in enumerate([..]): the loader of the drift type and the
\* call prod_df = generate_embeddings(resnet_model, device, cifar_testloader)
WeekNext ==
    /\ pc = "week_loop"
    /\ IF i_week + 1 < Len(DriftTypes)
       THEN /\ i_week' = i_week + 1
            /\ GE_Call(CifarLoader(test_images, batch_size), DefaultN, "week_ret")
            /\ pc' = "ge_enter"
       ELSE /\ pc' = "done"
            /\ UNCHANGED << i_week, dataloader, n, i, fc1_embeds, output_scores,
                            target, images_processed, ge_ret, ge_return >>
    /\ UNCHANGED << error, hooks, view_fc1_output_embeds, exc_e, service, last_call,
                    fs, features, published, train_images, test_images, baseline_df,
                    dataset_info, embedding_cols, CF1, model_info, day, clock, now,
                    timestamp, prod_df, events_df, nlp_vars >>

\* prod_df = generate_embeddings(..): the assignment; the offsets; the print
WeekAssign ==
    /\ pc = "week_ret"
    /\ prod_df' = ge_ret
    /\ day' = -1
    /\ pc' = "day_loop"
    /\ UNCHANGED << error, ge_vars, service, last_call, fs, features, published,
                    train_images, test_images, baseline_df, dataset_info,
                    embedding_cols, CF1, model_info, i_week, clock, now, timestamp,
                    events_df, nlp_vars >>

\* variant: the day loop runs one day more than week_days
DayNext_m ==
    /\ pc = "day_loop"
    /\ IF day + 1 <= week_days
       THEN /\ day' = day + 1
            /\ \E step \in ClockSteps :
                 /\ clock + step - StartClock <= MaxElapsed
                 /\ clock' = clock + step
            /\ now' = clock'
            /\ timestamp' = Timestamp(now', i_week, day')
            /\ pc' = "sample"
       ELSE /\ pc' = "week_loop"
            /\ UNCHANGED << day, clock, now, timestamp >>
    /\ UNCHANGED << error, ge_vars, service, last_call, fs, features, published,
                    train_images, test_images, baseline_df, dataset_info,
                    embedding_cols, CF1, model_info, i_week, prod_df, events_df,
                    nlp_vars >>

\* for day in range(week_days): now = time.time() * 1000; timestamp = int(..)
DayNext ==
    /\ pc = "day_loop"
    /\ IF day + 1 < week_days
       THEN /\ day' = day + 1
            /\ \E step \in ClockSteps :
                 /\ clock + step - StartClock <= MaxElapsed
                 /\ clock' = clock + step
            /\ now' = clock'
            /\ timestamp' = Timestamp(now', i_week, day')
            /\ pc' = "sample"
       ELSE /\ pc' = "week_loop"
            /\ UNCHANGED << day, clock, now, timestamp >>
    /\ UNCHANGED << error, ge_vars, service, last_call, fs, features, published,
                    train_images, test_images, baseline_df, dataset_info,
                    embedding_cols, CF1, model_info, i_week, prod_df, events_df,
                    nlp_vars >>

\* events_df = prod_df.sample(1000)
SampleBatch ==
    /\ pc = "sample"
    /\ IF NRows(prod_df) < SampleSize
       THEN /\ Raise("ValueError")
            /\ events_df' = events_df
       ELSE /\ \E o \in 0..MaxSampleOffset : events_df' = Sample(prod_df, SampleSize, o)
            /\ pc' = "stamp"
            /\ error' = error
    /\ UNCHANGED << ge_vars, service, last_call, fs, features, published, train_images,
                    test_images, baseline_df, dataset_info, embedding_cols, CF1,
                    model_info, i_week, day, clock, now, timestamp, prod_df,
                    nlp_vars >>

\* variant: the sample is a view of prod_df, so the stamp reaches prod_df
StampBatch_m ==
    /\ pc = "stamp"
    /\ events_df' = SetColumn(events_df, "timestamp", timestamp)
    /\ prod_df' = SetColumn(prod_df, "timestamp", timestamp)
    /\ pc' = "publish"
    /\ UNCHANGED << error, ge_vars, service, last_call, fs, features, published,
                    train_images, test_images, baseline_df, dataset_info,
                    embedding_cols, CF1, model_info, i_week, day, clock, now,
                    timestamp, nlp_vars >>

\* events_df['timestamp'] = timestamp
StampBatch ==
    /\ pc = "stamp"
    /\ events_df' = SetColumn(events_df, "timestamp", timestamp)
    /\ pc' = "publish"
    /\ UNCHANGED << error, ge_vars, service, last_call, fs, features, published,
                    train_images, test_images, baseline_df, dataset_info,
                    embedding_cols, CF1, model_info, i_week, day, clock, now,
                    timestamp, prod_df, nlp_vars >>

\* variant: a failed call is caught and the loop goes on
PublishBatch_m ==
    /\ pc = "publish"
    /\ last_call' = Call("publish_events_batch", PROJECT_ID, "", MODEL_ID)
    /\ \/ /\ published' = Append(published,
                [drift_type |-> DriftTypes[i_week + 1],
                 stamps |-> Range(ColumnVals(events_df, "timestamp")),
                 nrows |-> NRows(events_df),
                 read_at |-> now])
          /\ pc' = "day_loop"
          /\ error' = error
       \/ /\ \E e \in ExceptionKinds : error' = e
          /\ pc' = "day_loop"
          /\ published' = published
    /\ UNCHANGED << ge_vars, service, fs, features, train_images, test_images,
                    baseline_df, dataset_info, embedding_cols, CF1, model_info,
                    loop_vars, nlp_vars >>

\* client.publish_events_batch(.., batch_source=events_df, timestamp_field='timestamp')
PublishBatch ==
    /\ pc = "publish"
    /\ last_call' = Call("publish_events_batch", PROJECT_ID, "", MODEL_ID)
    /\ \/ /\ published' = Append(published,
                [drift_type |-> DriftTypes[i_week + 1],
                 stamps |-> Range(ColumnVals(events_df, "timestamp")),
                 nrows |-> NRows(events_df),
                 read_at |-> now])
          /\ pc' = "day_loop"
          /\ error' = error
       \/ RaiseAny /\ published' = published
    /\ UNCHANGED << ge_vars, service, fs, features, train_images, test_images,
                    baseline_df, dataset_info, embedding_cols, CF1, model_info,
                    loop_vars, nlp_vars >>

NbDefaults ==
    /\ last_call = NoCall
    /\ features = <<>>
    /\ published = <<>>
    /\ baseline_df = NoDF
    /\ dataset_info = NoInfo
    /\ embedding_cols = <<>>
    /\ CF1 = NoCF
    /\ model_info = NoModelInfo
    /\ i_week = -1
    /\ day = -1
    /\ now = 0
    /\ timestamp = 0
    /\ prod_df = NoDF
    /\ events_df = NoDF
    /\ base_series = <<>>
    /\ vectorized_df = NoDF

GEDefaults ==
    /\ hooks = 0
    /\ view_fc1_output_embeds = Unbound
    /\ exc_e = ""
    /\ dataloader = <<>>
    /\ n = 0
    /\ ge_return = ""
    /\ i = 0
    /\ fc1_embeds = Unbound
    /\ output_scores = Unbound
    /\ target = Unbound
    /\ images_processed = 0
    /\ ge_ret = NoDF

Init ==
    /\ pc = "create_project"
    /\ error = ""
    /\ GEDefaults
    /\ NbDefaults
    /\ fs = NoFS
    /\ service \in PriorServices
    /\ clock = StartClock
    /\ baseline_csv = NoDF
    /\ events_csv = NoDF
    /\ input_df = NoDF
    /\ n_terms = 0
    /\ train_images = TrainImages
    /\ test_images \in {SampleSize - 1, SampleSize + ExtraImages}

Next ==
    \/ CreateProject \/ BaselineCall \/ BaselineAssign \/ UploadDataset
    \/ CustomFeatureCell \/ ModelInfoCell \/ AddModel
    \/ WeekNext \/ WeekAssign \/ DayNext \/ SampleBatch \/ StampBatch \/ PublishBatch
    \/ GE_Register \/ GE_Forward \/ GE_ForwardRaises \/ GE_Except \/ GE_LoopEnd
    \/ GE_Build

Spec == Init /\ [][Next]_vars

\* ---- NLP notebook: vectorization and baseline packaging -------------------
\* TfidfVectorizer(.., max_features=300, ..)
max_features == 300

MaxTexts == 2          \* rows of the baseline CSV

MaxTerms == 3          \* terms of the texts that pass the vectorizer's filters

\* the names the metadata columns of the baseline CSV are drawn from
MetaNames == << "target", "predicted_score", "n_tokens", "f1", "f3" >>

\* the frame pd.read_csv returns: the column 'news' and the metadata columns
\* sel, one block per column; row r of a column holds the value of text r
CsvFrame(sel, rows) ==
    LET names == << "news" >> \o SelectSeq(MetaNames, LAMBDA c : c \in sel)
    IN [ok |-> TRUE, index |-> PyRange(rows),
        blocks |-> [b \in DOMAIN names |->
                      [columns |-> << names[b] >>, vals |-> PyRange(rows)]]]

\* df.drop(columns=names): the blocks of a frame with one column per block
DropColumns(df, names) ==
    [df EXCEPT !.blocks = SelectSeq(df.blocks, LAMBDA b : b.columns[1] \notin names)]

\* variant: the names are numbered from 0
FeatureNames_m(k) == [j \in 1..k |-> "f" \o ToString(j - 1)]

\* ['f'+str(c+1) for c in range(k)]
FeatureNames(k) == [j \in 1..k |-> "f" \o ToString((j - 1) + 1)]

nb_img_vars == << published, train_images, test_images, dataset_info, CF1,
                  model_info, loop_vars >>

\* baseline_df = pd.read_csv(..); base_series = baseline_df['news'].squeeze()
NLP_ReadCsv ==
    /\ pc = "nlp_read_csv"
    /\ baseline_df' = baseline_csv
    /\ base_series' = ColumnVals(baseline_csv, "news")
    /\ pc' = "nlp_vectorize"
    /\ UNCHANGED << error, ge_vars, service, last_call, fs, features, nb_img_vars,
                    embedding_cols, baseline_csv, events_csv, input_df, n_terms, vectorized_df >>

\* vectorizer.fit(base_series); transform; embedding_cols; vectorized_df:
\* the vocabulary holds the max_features most frequent of the terms the
\* filters keep, and fit raises ValueError when none is left
NLP_Vectorize ==
    /\ pc = "nlp_vectorize"
    /\ IF n_terms = 0
       THEN /\ Raise("ValueError")
            /\ UNCHANGED << embedding_cols, vectorized_df >>
       ELSE LET k == Min(n_terms, max_features)
            IN /\ embedding_cols' = FeatureNames(k)
               /\ vectorized_df' = DataFrame(base_series, k, FeatureNames(k))
               /\ pc' = "nlp_package"
               /\ error' = error
    /\ UNCHANGED << ge_vars, service, last_call, fs, features, nb_img_vars,
                    baseline_df, baseline_csv, events_csv, input_df, n_terms, base_series >>

\* baseline_df = baseline_df.drop(columns=['news'])
\* baseline_df = pd.concat([baseline_df, vectorized_df], axis=1)
NLP_Package ==
    /\ pc = "nlp_package"
    /\ baseline_df' = ConcatColumns(<< DropColumns(baseline_df, {"news"}), vectorized_df >>)
    /\ pc' = "nlp_packaged"
    /\ UNCHANGED << error, ge_vars, service, last_call, fs, features, nb_img_vars,
                    embedding_cols, baseline_csv, events_csv, input_df, n_terms, base_series,
                    vectorized_df >>

NLP_PROJECT_ID == "simple_nlp_example"

NLP_DATASET_ID == "newsgroups_1"

NLP_MODEL_ID == "newsgroup_model_v1"

\* what an earlier execution of the NLP notebook may have left in the service
NLP_PriorServices ==
    { EmptyService,
      [EmptyService EXCEPT !.projects = {NLP_PROJECT_ID}],
      [EmptyService EXCEPT !.projects = {NLP_PROJECT_ID},
                           !.datasets = {NLP_DATASET_ID}],
      [projects |-> {NLP_PROJECT_ID}, datasets |-> {NLP_DATASET_ID},
       models |-> {NLP_MODEL_ID}, artifacts |-> {NLP_MODEL_ID}] }

\* the variables no cell of the NLP notebook after the packaging writes
nlp_fixed == << ge_vars, fs, train_images, test_images, i_week, day, timestamp,
                prod_df, baseline_csv, events_csv, input_df, n_terms, base_series,
                vectorized_df, baseline_df, embedding_cols >>

\* the first cell of the NLP notebook
NLP_CreateProject ==
    /\ pc = "nlp_create_project"
    /\ GuardedCreateProject(NLP_PROJECT_ID, "nlp_read_csv")
    /\ UNCHANGED << ge_vars, fs, features, nb_img_vars, baseline_df,
                    embedding_cols, nlp_vars >>

\* dataset_info = fdl.DatasetInfo.from_dataframe(baseline_df) and the guarded
\* client.upload_dataset of the NLP notebook
NLP_UploadDataset ==
    /\ pc = "nlp_packaged"
    /\ dataset_info' = DatasetInfoFromDataframe(baseline_df)
    /\ GuardedUploadDataset(NLP_PROJECT_ID, NLP_DATASET_ID, "nlp_custom_feature")
    /\ UNCHANGED << nlp_fixed, features, published, CF1, model_info, clock, now,
                    events_df >>

\* fdl.CustomFeature.from_columns(cols, n_clusters=5, custom_name='tfidf_vector')
NLP_CustomFeatureFromColumns(cols) ==
    [custom_name |-> "tfidf_vector", columns |-> cols, n_clusters |-> 5]

NLP_CustomFeatureCell ==
    /\ pc = "nlp_custom_feature"
    /\ CF1' = NLP_CustomFeatureFromColumns(embedding_cols)
    /\ pc' = "nlp_model_info"
    /\ UNCHANGED << error, nlp_fixed, service, last_call, features, published,
                    dataset_info, model_info, clock, now, events_df >>

\* Index.drop(label, errors): the second positional argument is 'errors', and
\* any value but 'ignore' makes a missing label a KeyError
IndexDrop(index, label) == SelectSeq(index, LAMBDA c : c # label)

\* fdl.ModelInfo.from_dataset_info(dataset_info=.., dataset_id=DATASET_ID,
\* features=features, target='target', outputs=['predicted_score'],
\* custom_features=[CF1], ..) of the NLP notebook
NLP_ModelInfoFromDatasetInfo(feats, cf) ==
    [defined |-> TRUE, dataset_id |-> NLP_DATASET_ID, features |-> feats,
     target |-> "target", outputs |-> << "predicted_score" >>,
     custom_features |-> << cf >>]

\* features = baseline_df.columns.drop('target', 'predicted_score'); model_info = ..
NLP_ModelInfoCell ==
    /\ pc = "nlp_model_info"
    /\ IF "target" \notin Range(Columns(baseline_df))
       THEN /\ Raise("KeyError")
            /\ UNCHANGED << features, model_info >>
       ELSE /\ features' = IndexDrop(Columns(baseline_df), "target")
            /\ model_info' = NLP_ModelInfoFromDatasetInfo(
                                 IndexDrop(Columns(baseline_df), "target"), CF1)
            /\ pc' = "nlp_add_model"
            /\ error' = error
    /\ UNCHANGED << nlp_fixed, service, last_call, published, dataset_info, CF1,
                    clock, now, events_df >>

\* if not MODEL_ID in client.list_models(project_id=PROJECT_ID): client.add_model(..)
GuardedAddModel(project_id, dataset_id, model_id, next) ==
    \/ /\ model_id \notin service.models
       /\ ClientAddModel(project_id, dataset_id, model_id, next)
    \/ /\ model_id \in service.models
       /\ last_call' = Call("list_models", project_id, "", "")
       /\ service' = service
       /\ pc' = next
       /\ error' = error
    \/ /\ last_call' = Call("list_models", project_id, "", "")
       /\ RaiseAny
       /\ service' = service

NLP_AddModel ==
    /\ pc = "nlp_add_model"
    /\ GuardedAddModel(NLP_PROJECT_ID, NLP_DATASET_ID, NLP_MODEL_ID,
                       "nlp_add_model_surrogate")
    /\ UNCHANGED << nlp_fixed, features, published, dataset_info, CF1, model_info,
                    clock, now, events_df >>

\* client.add_model_surrogate(project_id=PROJECT_ID, model_id=MODEL_ID)
NLP_AddModelSurrogate ==
    /\ pc = "nlp_add_model_surrogate"
    /\ last_call' = Call("add_model_surrogate", NLP_PROJECT_ID, "", NLP_MODEL_ID)
    /\ \/ /\ service' = [service EXCEPT !.artifacts = @ \cup {NLP_MODEL_ID}]
          /\ pc' = "nlp_read_events"
          /\ error' = error
       \/ RaiseAny /\ service' = service
    /\ UNCHANGED << nlp_fixed, features, published, dataset_info, CF1, model_info,
                    clock, now, events_df >>

\* events_df = pd.read_csv(PATH_TO_EVENTS_CSV)
NLP_ReadEvents ==
    /\ pc = "nlp_read_events"
    /\ events_df' = events_csv
    /\ pc' = "nlp_time_shift"
    /\ UNCHANGED << error, nlp_fixed, service, last_call, features, published,
                    dataset_info, CF1, model_info, clock, now >>

MicrosPerMilli == 1000

MicrosPerSecond == 1000000

\* pd.to_datetime(ms, origin='unix', unit='ms'), as microseconds since the epoch
ToDatetime(ms) == ms * MicrosPerMilli

\* Timedelta.total_seconds(): seconds as a number with a fractional part, kept
\* as whole seconds and the microseconds of the fraction
TotalSeconds(delta) ==
    [sec |-> delta \div MicrosPerSecond, micro |-> delta % MicrosPerSecond]

\* pd.to_timedelta(seconds, unit='s'), as microseconds
ToTimedelta(seconds) == seconds.sec * MicrosPerSecond + seconds.micro

\* variant: the earliest timestamp of the column
SeriesMax_m(vals) == CHOOSE v \in Range(vals) : \A w \in Range(vals) : v <= w

\* Series.max()
SeriesMax(vals) == CHOOSE v \in Range(vals) : \A w \in Range(vals) : w <= v

\* events_df[ts_col] = pd.to_datetime(..); max_dt = events_df[ts_col].max()
\* delta = datetime.now() - max_dt
\* events_df[ts_col] = events_df[ts_col] + pd.to_timedelta(delta.total_seconds(), unit='s')
NLP_TimeShift ==
    /\ pc = "nlp_time_shift"
    /\ LET ts == ColumnVals(events_df, "timestamp")
           dt == [j \in DOMAIN ts |-> ToDatetime(ts[j])]
           max_dt == SeriesMax(dt)
           delta == clock - max_dt
           shift == ToTimedelta(TotalSeconds(delta))
       IN /\ now' = clock
          /\ events_df' = [events_df EXCEPT !.blocks =
                 [b \in DOMAIN events_df.blocks |->
                     IF events_df.blocks[b].columns = << "timestamp" >>
                     THEN [columns |-> << "timestamp" >>,
                           vals |-> [j \in DOMAIN dt |-> dt[j] + shift]]
                     ELSE events_df.blocks[b]]]
    /\ pc' = "nlp_publish"
    /\ UNCHANGED << error, nlp_fixed, service, last_call, features, published,
                    dataset_info, CF1, model_info, clock >>

\* client.publish_events_batch(project_id=.., model_id=.., batch_source=events_df,
\* timestamp_field=ts_col) of the NLP notebook
NLP_PublishBatch ==
    /\ pc = "nlp_publish"
    /\ last_call' = Call("publish_events_batch", NLP_PROJECT_ID, "", NLP_MODEL_ID)
    /\ \/ /\ published' = Append(published,
                [drift_type |-> "",
                 stamps |-> Range(ColumnVals(events_df, "timestamp")),
                 nrows |-> NRows(events_df),
                 read_at |-> now])
          /\ pc' = "nlp_done"
          /\ error' = error
       \/ RaiseAny /\ published' = published
    /\ UNCHANGED << nlp_fixed, service, features, dataset_info, CF1, model_info,
                    clock, now, events_df >>

\* the events CSV: the column 'news' and the column 'timestamp' holding ts
\* (milliseconds since the epoch)
EventsFrame(ts) ==
    [ok |-> TRUE, index |-> PyRange(Len(ts)),
     blocks |-> << [columns |-> << "news" >>, vals |-> PyRange(Len(ts))],
                   [columns |-> << "timestamp" >>, vals |-> ts] >>]

InitNLP ==
    /\ pc = "nlp_create_project"
    /\ error = ""
    /\ GEDefaults
    /\ NbDefaults
    /\ fs = NoFS
    /\ service \in NLP_PriorServices
    /\ train_images = 0
    /\ test_images = 0
    /\ \E sel \in SUBSET Range(MetaNames) : \E rows \in 1..MaxTexts :
           baseline_csv = CsvFrame(sel, rows)
    /\ n_terms \in (0..MaxTerms) \cup {max_features, max_features + 1}
    /\ events_csv = EventsFrame(<< 1500, 2000 >>)
    /\ input_df = NoDF
    /\ clock = 5000123

NextNLP ==
    \/ NLP_CreateProject \/ NLP_ReadCsv \/ NLP_Vectorize \/ NLP_Package
    \/ NLP_UploadDataset \/ NLP_CustomFeatureCell \/ NLP_ModelInfoCell
    \/ NLP_AddModel \/ NLP_AddModelSurrogate \/ NLP_ReadEvents \/ NLP_TimeShift
    \/ NLP_PublishBatch

SpecNLP == InitNLP /\ [][NextNLP]_vars

\* ---- the fairness and explainability notebooks ---------------------------
\* paths are sequences of components: << "model", "package.py" >> is model/package.py
Parent(path) == Take(path, Len(path) - 1)

\* the path and every directory above it
Ancestors(path) == { Take(path, k) : k \in 1..Len(path) }

\* os.makedirs(path) for each path in turn: creates the path and the missing
\* directories above it, FileExistsError when the path itself exists; the
\* directories made before the failing call stay
RECURSIVE MakeDirs(_, _)
MakeDirs(f, paths) ==
    IF paths = <<>> THEN [fs |-> f, error |-> ""]
    ELSE IF Head(paths) \in f.dirs
         THEN [fs |-> f, error |-> "FileExistsError"]
         ELSE MakeDirs([f EXCEPT !.dirs = @ \cup Ancestors(Head(paths))], Tail(paths))

\* open(path, 'wb') for each path in turn (%%writefile, urlretrieve):
\* FileNotFoundError when the directory of the path does not exist; the files
\* written before the failing call stay
RECURSIVE WriteFiles(_, _)
WriteFiles(f, paths) ==
    IF paths = <<>> THEN [fs |-> f, error |-> ""]
    ELSE IF Parent(Head(paths)) \notin f.dirs
         THEN [fs |-> f, error |-> "FileNotFoundError"]
         ELSE WriteFiles([f EXCEPT !.files = @ \cup {Head(paths)}], Tail(paths))

\* the variables the fairness and explainability notebooks never write
art_fixed == << ge_vars, published, train_images, test_images, embedding_cols, CF1,
                loop_vars, nlp_vars >>

\* baseline_df = pd.read_csv(..); dataset_info = fdl.DatasetInfo.from_dataframe(..)
ReadBaseline(columns, next) ==
    /\ baseline_df' = [ok |-> TRUE, index |-> PyRange(MaxTexts),
                      blocks |-> [b \in DOMAIN columns |->
                          [columns |-> << columns[b] >>, vals |-> PyRange(MaxTexts)]]]
    /\ dataset_info' = [defined |-> TRUE, columns |-> columns]
    /\ pc' = next
    /\ UNCHANGED << error, art_fixed, service, last_call, fs, features, model_info >>

\* client.upload_dataset(..) without a guard: the service rejects a dataset
\* ID it already holds
ClientUploadDataset(project_id, dataset_id, next) ==
    /\ last_call' = Call("upload_dataset", project_id, dataset_id, "")
    /\ \/ /\ dataset_id \notin service.datasets
          /\ service' = [service EXCEPT !.datasets = @ \cup {dataset_id}]
          /\ pc' = next
          /\ error' = error
       \/ /\ dataset_id \in service.datasets
          /\ Raise("Conflict")
          /\ service' = service
       \/ RaiseAny /\ service' = service
    /\ UNCHANGED << art_fixed, fs, features, baseline_df, dataset_info, model_info >>

\* the os.makedirs cell
MakeDirsCell(paths, next) ==
    /\ LET r == MakeDirs(fs, paths)
       IN /\ fs' = r.fs
          /\ IF r.error = "" THEN pc' = next /\ error' = error ELSE Raise(r.error)
    /\ UNCHANGED << art_fixed, service, last_call, features, baseline_df,
                    dataset_info, model_info >>

\* model_info = fdl.ModelInfo.from_dataset_info(
\*     dataset_info=client.get_dataset_info(PROJECT_ID, DATASET_ID),
\*     target=.., features=.., outputs=.., ..)
ModelInfoFromService(project_id, dataset_id, tgt, feats, outs, next) ==
    /\ last_call' = Call("get_dataset_info", project_id, dataset_id, "")
    /\ \/ /\ dataset_id \in service.datasets
          /\ features' = feats
          /\ model_info' = [defined |-> TRUE, dataset_id |-> dataset_id,
                            features |-> feats, target |-> tgt, outputs |-> outs,
                            custom_features |-> <<>>]
          /\ pc' = next
          /\ error' = error
       \/ /\ dataset_id \notin service.datasets
          /\ Raise("NotFound")
          /\ UNCHANGED << features, model_info >>
       \/ RaiseAny /\ UNCHANGED << features, model_info >>
    /\ UNCHANGED << art_fixed, service, fs, baseline_df, dataset_info >>

\* the unguarded client.add_model cell
AddModelCell(project_id, dataset_id, model_id, next) ==
    /\ ClientAddModel(project_id, dataset_id, model_id, next)
    /\ UNCHANGED << art_fixed, fs, features, baseline_df, dataset_info, model_info >>

\* a cell that writes files into the model directory; a download can also fail
\* on the network after any number of files
WriteFilesCell(paths, next, download) ==
    \/ /\ LET r == WriteFiles(fs, paths)
          IN /\ fs' = r.fs
             /\ IF r.error = "" THEN pc' = next /\ error' = error ELSE Raise(r.error)
       /\ UNCHANGED << art_fixed, service, last_call, features, baseline_df,
                       dataset_info, model_info >>
    \/ /\ download
       /\ \E k \in 0..(Len(paths) - 1) :
              LET r == WriteFiles(fs, Take(paths, k))
              IN /\ r.error = ""
                 /\ fs' = r.fs
       /\ Raise("URLError")
       /\ UNCHANGED << art_fixed, service, last_call, features, baseline_df,
                       dataset_info, model_info >>

\* client.add_model_artifact(model_dir='model/', project_id=.., model_id=.., ..)
AddModelArtifact(project_id, model_id, next) ==
    /\ last_call' = Call("add_model_artifact", project_id, "", model_id)
    /\ \/ /\ model_id \in service.models
          /\ service' = [service EXCEPT !.artifacts = @ \cup {model_id}]
          /\ pc' = next
          /\ error' = error
       \/ /\ model_id \notin service.models
          /\ Raise("NotFound")
          /\ service' = service
       \/ RaiseAny /\ service' = service
    /\ UNCHANGED << art_fixed, fs, features, baseline_df, dataset_info, model_info >>

\* client.run_fairness(..) / client.run_explanation(..)
RunOnModel(op, project_id, dataset_id, model_id, next) ==
    /\ last_call' = Call(op, project_id, dataset_id, model_id)
    /\ \/ /\ model_id \in service.artifacts
          /\ pc' = next
          /\ error' = error
       \/ /\ model_id \notin service.artifacts
          /\ Raise("NotFound")
       \/ RaiseAny
    /\ UNCHANGED << art_fixed, service, fs, features, baseline_df, dataset_info,
                    model_info >>

\* what an earlier execution of a notebook may have left in the service
PriorServicesOf(project_id, dataset_id, model_id) ==
    { EmptyService,
      [EmptyService EXCEPT !.projects = {project_id}],
      [projects |-> {project_id}, datasets |-> {dataset_id},
       models |-> {model_id}, artifacts |-> {model_id}] }

\* ---- the fairness notebook
F_PROJECT_ID == "credit_approval"

F_DATASET_ID == "intersectionally_unfair"

F_MODEL_ID == "intersectionally_unfair"

metadata_cols == << "gender", "race" >>

feature_columns ==
    << "FLAG_OWN_CAR", "FLAG_OWN_REALTY", "NAME_INCOME_TYPE", "NAME_EDUCATION_TYPE",
       "NAME_FAMILY_STATUS", "NAME_HOUSING_TYPE", "DAYS_BIRTH", "DAYS_EMPLOYED",
       "CNT_FAM_MEMBERS", "income", "paid_off", "#_of_pastdues", "no_loan" >>

\* variant: the descriptor names the output differently from the package
F_outputs_m == << "probability_of_credit_request" >>


F_outputs == << "Approve_probability_of_credit_request" >>

\* the files the fairness notebook puts into the model directory
F_PackageFiles == << << "model", "package.py" >> >>

F_ModelFiles == << << "model", "model_unfair.pkl" >> >>

\* what an earlier execution may have left in the working directory
F_PriorFS ==
    { NoFS,
      [dirs |-> {<< "model" >>}, files |-> {}],
      [dirs |-> {<< "model" >>}, files |-> Range(F_PackageFiles \o F_ModelFiles)] }

F_CreateProject ==
    /\ pc = "f_create_project"
    /\ GuardedCreateProject(F_PROJECT_ID, "f_read_csv")
    /\ UNCHANGED << art_fixed, fs, features, baseline_df, dataset_info, model_info >>

F_ReadBaseline ==
    /\ pc = "f_read_csv"
    /\ ReadBaseline(metadata_cols \o feature_columns \o << "target" >> \o F_outputs,
                    "f_upload_dataset")

F_UploadDataset ==
    /\ pc = "f_upload_dataset"
    /\ ClientUploadDataset(F_PROJECT_ID, F_DATASET_ID, "f_makedirs")

F_MakeDirs ==
    /\ pc = "f_makedirs"
    /\ MakeDirsCell(<< << "model" >> >>, "f_model_info")

F_ModelInfo ==
    /\ pc = "f_model_info"
    /\ ModelInfoFromService(F_PROJECT_ID, F_DATASET_ID, "target", feature_columns,
                            F_outputs, "f_add_model")

F_AddModel ==
    /\ pc = "f_add_model"
    /\ AddModelCell(F_PROJECT_ID, F_DATASET_ID, F_MODEL_ID, "f_write_package")

\* %%writefile model/package.py
F_WritePackage ==
    /\ pc = "f_write_package"
    /\ WriteFilesCell(F_PackageFiles, "f_urlretrieve", FALSE)

\* urllib.request.urlretrieve(.., "model/model_unfair.pkl")
F_UrlRetrieve ==
    /\ pc = "f_urlretrieve"
    /\ WriteFilesCell(F_ModelFiles, "f_add_model_artifact", TRUE)

F_AddModelArtifact ==
    /\ pc = "f_add_model_artifact"
    /\ AddModelArtifact(F_PROJECT_ID, F_MODEL_ID, "f_run_fairness")

F_RunFairness ==
    /\ pc = "f_run_fairness"
    /\ RunOnModel("run_fairness", F_PROJECT_ID, F_DATASET_ID, F_MODEL_ID, "f_done")

InitFair ==
    /\ pc = "f_create_project"
    /\ error = ""
    /\ GEDefaults
    /\ NbDefaults
    /\ service \in PriorServicesOf(F_PROJECT_ID, F_DATASET_ID, F_MODEL_ID)
    /\ fs \in F_PriorFS
    /\ clock = StartClock
    /\ baseline_csv = NoDF
    /\ events_csv = NoDF
    /\ input_df = NoDF
    /\ n_terms = 0
    /\ train_images = 0
    /\ test_images = 0

NextFair ==
    \/ F_CreateProject \/ F_ReadBaseline \/ F_UploadDataset \/ F_MakeDirs
    \/ F_ModelInfo \/ F_AddModel \/ F_WritePackage \/ F_UrlRetrieve
    \/ F_AddModelArtifact \/ F_RunFairness

\* ---- the explainability notebook
X_PROJECT_ID == "imdb_explainability"

X_DATASET_ID == "imdb_baseline"

X_MODEL_ID == "imdb_rnn"

X_Dirs ==
    << << "model" >>, << "model", "saved_model" >>,
       << "model", "saved_model", "variables" >> >>

X_PackageFiles == << << "model", "package.py" >> >>

\* variant: the cell does not download variables.index
X_ModelFiles_m ==
    << << "model", "tokenizer.pkl" >>,
       << "model", "requirements.txt" >>,
       << "model", "saved_model", "keras_metadata.pb" >>,
       << "model", "saved_model", "saved_model.pb" >>,
       << "model", "saved_model", "variables", "variables.data-00000-of-00001" >> >>

\* the six urlretrieve targets, in the order of the cell
X_ModelFiles ==
    << << "model", "tokenizer.pkl" >>,
       << "model", "requirements.txt" >>,
       << "model", "saved_model", "keras_metadata.pb" >>,
       << "model", "saved_model", "saved_model.pb" >>,
       << "model", "saved_model", "variables", "variables.data-00000-of-00001" >>,
       << "model", "saved_model", "variables", "variables.index" >> >>

X_PriorFS ==
    { NoFS,
      [dirs |-> {<< "model" >>}, files |-> {}],
      [dirs |-> Range(X_Dirs), files |-> Range(X_PackageFiles \o X_ModelFiles)] }

X_CreateProject ==
    /\ pc = "x_create_project"
    /\ GuardedCreateProject(X_PROJECT_ID, "x_read_csv")
    /\ UNCHANGED << art_fixed, fs, features, baseline_df, dataset_info, model_info >>

X_ReadBaseline ==
    /\ pc = "x_read_csv"
    /\ ReadBaseline(<< "sentence", "polarity", "sentiment" >>, "x_upload_dataset")

X_UploadDataset ==
    /\ pc = "x_upload_dataset"
    /\ ClientUploadDataset(X_PROJECT_ID, X_DATASET_ID, "x_makedirs")

X_MakeDirs ==
    /\ pc = "x_makedirs"
    /\ MakeDirsCell(X_Dirs, "x_model_info")

X_ModelInfo ==
    /\ pc = "x_model_info"
    /\ ModelInfoFromService(X_PROJECT_ID, X_DATASET_ID, "polarity", << "sentence" >>,
                            << "sentiment" >>, "x_add_model")

X_AddModel ==
    /\ pc = "x_add_model"
    /\ AddModelCell(X_PROJECT_ID, X_DATASET_ID, X_MODEL_ID, "x_write_package")

\* %%writefile model/package.py
X_WritePackage ==
    /\ pc = "x_write_package"
    /\ WriteFilesCell(X_PackageFiles, "x_urlretrieve", FALSE)

X_UrlRetrieve ==
    /\ pc = "x_urlretrieve"
    /\ WriteFilesCell(X_ModelFiles, "x_add_model_artifact", TRUE)

X_AddModelArtifact ==
    /\ pc = "x_add_model_artifact"
    /\ AddModelArtifact(X_PROJECT_ID, X_MODEL_ID, "x_run_explanation")

\* explain_df = baseline_df[1:2]; client.run_explanation(.., df=explain_df)
X_RunExplanation ==
    /\ pc = "x_run_explanation"
    /\ RunOnModel("run_explanation", X_PROJECT_ID, X_DATASET_ID, X_MODEL_ID, "x_done")

InitExpl ==
    /\ pc = "x_create_project"
    /\ error = ""
    /\ GEDefaults
    /\ NbDefaults
    /\ service \in PriorServicesOf(X_PROJECT_ID, X_DATASET_ID, X_MODEL_ID)
    /\ fs \in X_PriorFS
    /\ clock = StartClock
    /\ baseline_csv = NoDF
    /\ events_csv = NoDF
    /\ input_df = NoDF
    /\ n_terms = 0
    /\ train_images = 0
    /\ test_images = 0

NextExpl ==
    \/ X_CreateProject \/ X_ReadBaseline \/ X_UploadDataset \/ X_MakeDirs
    \/ X_ModelInfo \/ X_AddModel \/ X_WritePackage \/ X_UrlRetrieve
    \/ X_AddModelArtifact \/ X_RunExplanation

\* the two notebooks that upload a model package
InitArtifacts == InitFair \/ InitExpl

NextArtifacts == NextFair \/ NextExpl

SpecArtifacts == InitArtifacts /\ [][NextArtifacts]_vars

\* ---- FiddlerModel.get_ig_baseline of the explainability package -----------
FEATURE_LABEL == "sentence"

MaxRows == 2           \* rows of the frame to explain

\* the column names, index labels and cell values of the frames to explain
IGColumnNames == {"sentence", "polarity", "sentiment"}

IGIndexes == { PyRange(MaxRows), [j \in 1..MaxRows |-> 10 - j] }

IGValues == {"", "good"}

\* a frame with one block per column; cells[c][r] is the value of column c, row r
FrameOf(index, columns, cells) ==
    [ok |-> TRUE, index |-> index,
     blocks |-> [c \in DOMAIN columns |-> [columns |-> << columns[c] >>,
                                            vals |-> cells[c]]]]

\* df[name] as a Series: the index and the values of the column
GetSeries(df, name) == [index |-> df.index, vals |-> ColumnVals(df, name)]

\* variant: apply leaves the values as they are
SeriesApplyEmpty_m(series) == series

\* series.apply(lambda x: ''): same index, every value the empty string
SeriesApplyEmpty(series) ==
    [index |-> series.index, vals |-> [j \in DOMAIN series.vals |-> ""]]

\* df[name] = series for an existing column: the values are aligned on the
\* index labels, NaN where the series has no such label
AssignSeries(df, name, series) ==
    LET aligned == IF series.index = df.index THEN series.vals
                   ELSE [r \in DOMAIN df.index |->
                           IF \E j \in DOMAIN series.index : series.index[j] = df.index[r]
                           THEN series.vals[CHOOSE j \in DOMAIN series.index :
                                               series.index[j] = df.index[r]]
                           ELSE NaN]
    IN [df EXCEPT !.blocks = [b \in DOMAIN df.blocks |->
           IF df.blocks[b].columns = << name >>
           THEN [columns |-> << name >>, vals |-> aligned]
           ELSE df.blocks[b]]]

\* the variables get_ig_baseline does not touch
ig_fixed == << ge_vars, service, last_call, fs, features, published, train_images,
               test_images, dataset_info, embedding_cols, CF1, model_info, loop_vars,
               nlp_vars >>

\* baseline_df = input_df.copy()
IG_Copy ==
    /\ pc = "ig_copy"
    /\ baseline_df' = input_df
    /\ pc' = "ig_assign"
    /\ UNCHANGED << error, ig_fixed >>

\* baseline_df[FEATURE_LABEL] = input_df[FEATURE_LABEL].apply(lambda x: '')
\* return baseline_df
IG_Assign ==
    /\ pc = "ig_assign"
    /\ IF FEATURE_LABEL \notin Range(Columns(input_df))
       THEN /\ Raise("KeyError")
            /\ baseline_df' = baseline_df
       ELSE /\ baseline_df' = AssignSeries(baseline_df, FEATURE_LABEL,
                                  SeriesApplyEmpty(GetSeries(input_df, FEATURE_LABEL)))
            /\ pc' = "ig_returned"
            /\ error' = error
    /\ UNCHANGED ig_fixed

\* the frames to explain: up to MaxRows rows, distinct column names in any order
InitIG ==
    /\ pc = "ig_copy"
    /\ error = ""
    /\ GEDefaults
    /\ NbDefaults
    /\ fs = NoFS
    /\ service = EmptyService
    /\ clock = StartClock
    /\ baseline_csv = NoDF
    /\ events_csv = NoDF
    /\ n_terms = 0
    /\ train_images = 0
    /\ test_images = 0
    /\ \E k \in 1..Cardinality(IGColumnNames) : \E columns \in [1..k -> IGColumnNames] :
       \E index \in IGIndexes : \E m \in 0..MaxRows :
       \E cells \in [1..k -> [1..m -> IGValues]] :
           /\ NoDup(columns)
           /\ input_df = FrameOf(Take(index, m), columns, cells)

NextIG == IG_Copy \/ IG_Assign

SpecIG == InitIG /\ [][NextIG]_vars

\* ---- the names the model packages use -------------------------------------
\* self.output_columns of SklearnModelPackage (fairness package.py)
output_columns == << "Approve_probability_of_credit_request" >>

\* the constants of the explainability package.py; None is written NaN
OUTPUT_COL == << "sentiment" >>

MAX_SEQ_LENGTH == 150

BATCH_INPUT_SHAPE_LIST == << << NaN, 150, 64 >> >>

\* ---- the four notebooks ---------------------------------------------------
InitAll == Init \/ InitNLP \/ InitFair \/ InitExpl

NextAll == Next \/ NextNLP \/ NextFair \/ NextExpl

SpecAll == InitAll /\ [][NextAll]_vars

\* ---- the time shift of the NLP notebook on every small events file ---------
MaxEvents == 2         \* rows of the events CSV

\* the timestamps of the events CSV, milliseconds since the epoch
EventTimes == {0, 1500, 2000}

\* the time of execution, microseconds since the epoch: before, at and after
\* the latest event
ShiftClocks == {1999000, 2000000, 2000001, 5000123}

InitShift ==
    /\ pc = "nlp_create_project"
    /\ error = ""
    /\ GEDefaults
    /\ NbDefaults
    /\ fs = NoFS
    /\ service = EmptyService
    /\ train_images = 0
    /\ test_images = 0
    /\ baseline_csv = CsvFrame({"target", "predicted_score"}, MaxTexts)
    /\ n_terms = MaxTerms
    /\ \E k \in 1..MaxEvents : \E ts \in [1..k -> EventTimes] :
           events_csv = EventsFrame(ts)
    /\ input_df = NoDF
    /\ clock \in ShiftClocks

SpecShift == InitShift /\ [][NextNLP]_vars

\* ---- generate_embeddings on every small dataloader and n ------------------
\* the batch sizes of the dataloaders: up to MaxBatches batches of 1..MaxBatchSize
BatchSizeSeqs == UNION {[1..k -> 1..MaxBatchSize] : k \in 0..MaxBatches}

\* the dataloader with these batch sizes: the images 0, 1, 2, .. in order
MakeLoader(sizes) ==
    [b \in DOMAIN sizes |->
        [j \in 1..sizes[b] |-> SumSeq(SubSeq(sizes, 1, b - 1)) + j - 1]]

InitGE ==
    /\ pc = "ge_enter"
    /\ error = ""
    /\ hooks = 0
    /\ view_fc1_output_embeds = Unbound
    /\ exc_e = ""
    /\ \E sizes \in BatchSizeSeqs : dataloader = MakeLoader(sizes)
    /\ n \in 1..MaxN
    /\ ge_return = "returned"
    /\ i = 0
    /\ fc1_embeds = Unbound
    /\ output_scores = Unbound
    /\ target = Unbound
    /\ images_processed = 0
    /\ ge_ret = NoDF
    /\ NbDefaults
    /\ fs = NoFS
    /\ service = EmptyService
    /\ clock = StartClock
    /\ baseline_csv = NoDF
    /\ events_csv = NoDF
    /\ input_df = NoDF
    /\ n_terms = 0
    /\ train_images = 0
    /\ test_images = 0

NextGE == GE_Next

SpecGE == InitGE /\ [][NextGE]_vars

\* ---- properties -----------------------------------------------------------
\* all images of a dataloader, in the order the batches yield them
Images(dl) == Flatten(dl)

\* the timestamp of a published batch
BatchTs(b) == CHOOSE t \in b.stamps : TRUE

DriftRank(d) == CHOOSE r \in DOMAIN DriftTypes : DriftTypes[r] = d

\* C1: every dataframe generate_embeddings returns has exactly the 128
\* embedding columns emb_0 .. emb_127, and these are the columns the custom
\* feature 'fc1_embedding' groups and the model descriptor lists as features.
C1_EmbeddingColumns ==
    ge_ret.ok =>
        LET emb == ge_ret.blocks[1].columns
            descriptor == ModelInfoFromDatasetInfo(EmbeddingCols,
                              CustomFeatureFromColumns(EmbeddingCols))
        IN /\ Len(emb) = 128
           /\ \A j \in 1..128 : emb[j] = "emb_" \o ToString(j - 1)
           /\ Range(Columns(ge_ret)) \ (Range(CIFAR_CLASSES) \cup {"target"}) = Range(emb)
           /\ descriptor.features = emb
           /\ descriptor.custom_features[1].columns = emb
           /\ descriptor.custom_features[1].custom_name = "fc1_embedding"

C1_Witness ==
    /\ pc = "returned"
    /\ ge_ret.ok
    /\ Len(dataloader) = 2
    /\ n > Len(Images(dataloader))

\* C2: for n >= 1 and a dataloader of N >= 1 images generate_embeddings
\* returns min(n, N) rows, and the embedding, score and label blocks all hold
\* the first min(n, N) images, one row each, in order.
C2_RowCount ==
    (pc = "returned" /\ n >= 1 /\ Len(Images(dataloader)) >= 1) =>
        LET imgs == Images(dataloader)
            m == Min(n, Len(imgs))
        IN /\ NRows(ge_ret) = m
           /\ Len(ge_ret.blocks) = 3
           /\ \A b \in 1..3 : ge_ret.blocks[b].vals = SubSeq(imgs, 1, m)

C2_Witness ==
    /\ pc = "returned"
    /\ Len(dataloader) >= 2
    /\ images_processed > n
    /\ NRows(ge_ret) = n

\* C3: every batch handed to publish_events_batch has exactly 1000 rows, and
\* they are 1000 distinct rows of prod_df.
C3_BatchRows ==
    /\ pc = "publish" =>
          /\ NRows(events_df) = 1000
          /\ NoDup(events_df.index)
          /\ Range(events_df.index) \subseteq Range(prod_df.index)
          /\ \A b \in DOMAIN prod_df.blocks : \A j \in 1..NRows(events_df) :
                 events_df.blocks[b].vals[j] = prod_df.blocks[b].vals[events_df.index[j] + 1]
    /\ \A k \in DOMAIN published : published[k].nrows = 1000

C3_Witness ==
    /\ pc = "publish"
    /\ i_week = 2
    /\ day = 5
    /\ events_df.index[1] # 0

\* C4: all rows of a batch carry the same timestamp, the integer computed
\* once for the batch as now - week_offset - day*day_offset.
C4_SharedTimestamp ==
    /\ pc = "publish" =>
          LET off == ((2 - i_week) * 7 * 24 + day * 24) * TicksPerHour
          IN /\ \A j \in 1..NRows(events_df) :
                    ColumnVals(events_df, "timestamp")[j] = timestamp
             /\ timestamp * TicksPerHour <= now - off
             /\ now - off < (timestamp + 1) * TicksPerHour
    /\ \A k \in DOMAIN published : Cardinality(published[k].stamps) = 1

C4_Witness ==
    /\ pc = "publish"
    /\ i_week = 1
    /\ day = 3
    /\ now % TicksPerHour # 0
    /\ Len(published) = 9

\* C5 as stated: the timestamps of the batches, in publishing order, are
\* non-decreasing throughout or non-increasing throughout.
C5_MonotonicThroughout ==
    \/ \A k \in 1..(Len(published) - 1) :
           BatchTs(published[k]) <= BatchTs(published[k + 1])
    \/ \A k \in 1..(Len(published) - 1) :
           BatchTs(published[k]) >= BatchTs(published[k + 1])

\* C5 amended: within a drift type the timestamps of successive batches are
\* non-increasing when the clock advanced by at most one day between the two
\* readings, and the first batch of the next drift type is later than the
\* last batch of the one before.
C5_MonotonicWithinWeek ==
    \A k \in 1..(Len(published) - 1) :
        LET a == published[k]
            b == published[k + 1]
        IN /\ (a.drift_type = b.drift_type /\ b.read_at - a.read_at <= DayTicks)
                  => BatchTs(b) <= BatchTs(a)
           /\ a.drift_type # b.drift_type => BatchTs(b) > BatchTs(a)

C5_Witness ==
    /\ Len(published) = 8
    /\ published[6].drift_type = "original"
    /\ published[7].drift_type = "blurred"
    /\ published[8].read_at - published[7].read_at = DayTicks - 1

\* C6: when the clock advances by less than two days during the run, every
\* 'original' batch is stamped strictly earlier than every 'blurred' batch
\* and every 'blurred' batch strictly earlier than every
\* 'brightness_reduced' batch.
C6_DisjointWindows ==
    (clock - StartClock < 2 * DayTicks) =>
        \A a \in DOMAIN published : \A b \in DOMAIN published :
            DriftRank(published[a].drift_type) < DriftRank(published[b].drift_type)
                => BatchTs(published[a]) < BatchTs(published[b])

C6_Witness ==
    /\ Len(published) = 18
    /\ clock > StartClock
    /\ published[18].drift_type = "brightness_reduced"

\* C7: a failed call stops the run: once an exception is raised nothing more
\* is built or published and no further drift type is processed, and the
\* step that raises neither re-sends nor rolls back what was sent.
C7_FailureAborts ==
    [][ /\ error # "" =>
              UNCHANGED << pc, published, service, events_df, prod_df, i_week, day >>
        /\ (error = "" /\ error' # "") =>
              (pc' = "aborted" /\ published' = published /\ service' = service)
      ]_vars

C7_Witness ==
    /\ pc = "aborted"
    /\ error \in ExceptionKinds
    /\ Len(published) = 7
    /\ i_week = 1
    /\ day = 1
    /\ Len(events_df.blocks) = 4

\* C8: generate_embeddings on a dataloader that yields no batch fails with
\* an error and returns no dataframe.
C8_EmptyInputFails ==
    Len(dataloader) = 0 =>
        /\ pc # "returned"
        /\ ~ge_ret.ok
        /\ pc \notin {"ge_enter", "ge_loop", "ge_build"} => (pc = "aborted" /\ error # "")

C8_Witness ==
    /\ Len(dataloader) = 0
    /\ pc = "aborted"
    /\ error = "UnboundLocalError"

C10_EventSchema ==
    pc = "publish" =>
        /\ Len(Columns(baseline_df)) = 128 + 10 + 1
        /\ Len(Columns(events_df)) = Len(Columns(baseline_df)) + 1
        /\ Range(Columns(events_df)) = Range(Columns(baseline_df)) \cup {"timestamp"}
        /\ NoDup(Columns(events_df))

C10_Witness ==
    /\ pc = "publish"
    /\ i_week = 2
    /\ day = 0
    /\ "timestamp" \in Range(Columns(events_df))

\* C11: building and stamping a batch leaves prod_df as generate_embeddings
\* returned it (same rows, same columns, no 'timestamp' column), and a batch
\* differs from the rows it was sampled from by the timestamp column only.
C11_SourceUnchanged ==
    /\ pc \in {"day_loop", "sample", "stamp", "publish"} =>
          /\ prod_df = ge_ret
          /\ "timestamp" \notin Range(Columns(prod_df))
    /\ pc = "publish" =>
          /\ Len(events_df.blocks) = Len(prod_df.blocks) + 1
          /\ \A b \in DOMAIN prod_df.blocks :
                 /\ events_df.blocks[b].columns = prod_df.blocks[b].columns
                 /\ \A j \in 1..NRows(events_df) :
                        events_df.blocks[b].vals[j]
                            = prod_df.blocks[b].vals[events_df.index[j] + 1]

C11_Witness ==
    /\ pc = "day_loop"
    /\ i_week = 1
    /\ day = 5
    /\ Len(published) = 12
    /\ "timestamp" \in Range(Columns(events_df))

\* C18: the columns of the frame generate_embeddings returns, and their order,
\* are the same for every call, whatever the dataloader and n: emb_0..emb_127,
\* then the ten class names in CIFAR_CLASSES order, then 'target'.
C18_SameColumnsEveryCall ==
    ge_ret.ok =>
        /\ Len(Columns(ge_ret)) = 139
        /\ \A j \in 1..128 : Columns(ge_ret)[j] = "emb_" \o ToString(j - 1)
        /\ SubSeq(Columns(ge_ret), 129, 138)
               = << "plane", "car", "bird", "cat", "deer",
                    "dog", "frog", "horse", "ship", "truck" >>
        /\ Columns(ge_ret)[139] = "target"

C18_Witness ==
    /\ pc = "returned"
    /\ ge_ret.ok
    /\ n = 1
    /\ Len(dataloader) = 3
    /\ NRows(ge_ret) = 1

\* C20: an exception raised by an iteration of the forward loop of
\* generate_embeddings leaves the call as that same exception, no frame is
\* returned, and the hook the call registered is held through the loop and
\* removed by the except clause before the exception propagates.
C20_ReraisedAfterHookRemoval ==
    [][ /\ pc = "ge_loop" => hooks' = hooks
        /\ pc = "ge_except" =>
              /\ hooks' = hooks - 1
              /\ error' = exc_e
              /\ exc_e \in ExceptionKinds
              /\ pc' = "aborted"
              /\ ge_ret' = NoDF
      ]_vars

C20_Witness ==
    /\ pc = "aborted"
    /\ exc_e = "OSError"
    /\ error = "OSError"
    /\ hooks = 0
    /\ i = 1
    /\ Len(dataloader) = 2

\* C14: in both monitoring notebooks add_model is called only when its model
\* ID is not yet registered in the service, also on a re-execution against a
\* service that kept the model.
C14_AddModelOnlyWhenAbsent ==
    [][ (pc \in {"add_model", "nlp_add_model"} /\ last_call'.op = "add_model") =>
            last_call'.model_id \notin service.models ]_vars

\* C19: in the NLP notebook embedding_cols is exactly f1..fk, k the
\* vocabulary size (at most 300) and the width of the TF-IDF matrix, without
\* gap or duplicate; vectorized_df has these k columns and one row per
\* baseline text; the custom feature 'tfidf_vector' groups exactly these columns.
C19_EmbeddingColsMatchMatrix ==
    /\ vectorized_df.ok =>
          LET k == Len(Columns(vectorized_df))
          IN /\ k = Min(n_terms, max_features)
             /\ k <= 300
             /\ Len(embedding_cols) = k
             /\ \A j \in 1..k : embedding_cols[j] = "f" \o ToString(j)
             /\ NoDup(embedding_cols)
             /\ Columns(vectorized_df) = embedding_cols
             /\ NRows(vectorized_df) = NRows(baseline_csv)
             /\ vectorized_df.blocks[1].vals = ColumnVals(baseline_csv, "news")
    /\ CF1.custom_name = "tfidf_vector" =>
          /\ CF1.columns = embedding_cols
          /\ CF1.columns = Columns(vectorized_df)

C19_Witness ==
    /\ pc = "nlp_model_info"
    /\ n_terms = max_features + 1
    /\ Len(CF1.columns) = 300
    /\ CF1.custom_name = "tfidf_vector"
    /\ NRows(vectorized_df) = 2

C15_PackageComplete ==
    [][ /\ (pc = "f_add_model_artifact" /\ last_call'.op = "add_model_artifact") =>
              {<< "model", "package.py" >>, << "model", "model_unfair.pkl" >>}
                  \subseteq fs.files
        /\ (pc = "x_add_model_artifact" /\ last_call'.op = "add_model_artifact") =>
              {<< "model", "package.py" >>,
               << "model", "tokenizer.pkl" >>,
               << "model", "requirements.txt" >>,
               << "model", "saved_model", "keras_metadata.pb" >>,
               << "model", "saved_model", "saved_model.pb" >>,
               << "model", "saved_model", "variables", "variables.index" >>,
               << "model", "saved_model", "variables",
                  "variables.data-00000-of-00001" >>} \subseteq fs.files
        /\ \A f \in fs'.files \ fs.files : Parent(f) \in fs.dirs
      ]_vars

C15_Witness ==
    /\ pc = "x_run_explanation"
    /\ last_call.op = "add_model_artifact"
    /\ X_MODEL_ID \in service.artifacts
    /\ Cardinality(fs.files) = 7
    /\ Cardinality(fs.dirs) = 3

\* C12: in every notebook a service call is issued only when what it refers
\* to exists in the service: the project for a dataset call, the dataset for
\* add_model, the model for add_model_surrogate, add_model_artifact and
\* publish_events_batch, the uploaded artifact for run_fairness and
\* run_explanation; also when a guarded create was skipped.
C12_DependencyOrder ==
    /\ last_call.op \in {"list_datasets", "upload_dataset", "get_dataset_info",
                         "list_models"} =>
          last_call.project_id \in service.projects
    /\ last_call.op = "get_dataset_info" => last_call.dataset_id \in service.datasets
    /\ last_call.op = "add_model" =>
          /\ last_call.project_id \in service.projects
          /\ last_call.dataset_id \in service.datasets
    /\ last_call.op \in {"add_model_surrogate", "add_model_artifact",
                         "publish_events_batch"} =>
          last_call.model_id \in service.models
    /\ last_call.op \in {"run_fairness", "run_explanation"} =>
          /\ last_call.model_id \in service.models
          /\ last_call.model_id \in service.artifacts

C12_Witness ==
    /\ pc = "nlp_done"
    /\ last_call = Call("publish_events_batch", NLP_PROJECT_ID, "", NLP_MODEL_ID)
    /\ NLP_MODEL_ID \in service.artifacts
    /\ Len(published) = 1

\* C13: create_project is called exactly when the project ID is not in the
\* service, and in the two monitoring notebooks upload_dataset exactly when
\* the dataset ID is not in the service; a successful create leaves the ID in
\* the service, so a later execution does not call it again and an existing
\* dataset is never uploaded again.
C13_GuardedCreate ==
    [][ /\ \A cell \in { << "create_project", PROJECT_ID >>,
                         << "nlp_create_project", NLP_PROJECT_ID >>,
                         << "f_create_project", F_PROJECT_ID >>,
                         << "x_create_project", X_PROJECT_ID >> } :
              pc = cell[1] =>
                  /\ last_call'.op = "create_project" =>
                        /\ last_call'.project_id = cell[2]
                        /\ cell[2] \notin service.projects
                        /\ error' = "" => cell[2] \in service'.projects
                  /\ (cell[2] \notin service.projects /\ error' = "") =>
                        last_call'.op = "create_project"
                  /\ cell[2] \in service.projects => service' = service
        /\ \A cell \in { << "upload_dataset", DATASET_ID >>,
                         << "nlp_packaged", NLP_DATASET_ID >> } :
              pc = cell[1] =>
                  /\ last_call'.op = "upload_dataset" =>
                        /\ last_call'.dataset_id = cell[2]
                        /\ cell[2] \notin service.datasets
                        /\ error' = "" => cell[2] \in service'.datasets
                  /\ (cell[2] \notin service.datasets /\ error' = "") =>
                        last_call'.op = "upload_dataset"
                  /\ cell[2] \in service.datasets => service' = service
      ]_vars

C13_Witness ==
    /\ pc = "nlp_custom_feature"
    /\ last_call = Call("list_datasets", NLP_PROJECT_ID, "", "")
    /\ NLP_DATASET_ID \in service.datasets
    /\ NLP_MODEL_ID \notin service.models

\* C17: model_info is built once per run, before the add_model call that
\* sends it, and once built neither it nor the feature, embedding-column and
\* custom-feature values it was built from change.
C17_DescriptorFrozen ==
    [][ /\ model_info.defined =>
              UNCHANGED << model_info, features, embedding_cols, CF1 >>
        /\ model_info' # model_info =>
              /\ pc \in {"model_info", "nlp_model_info", "f_model_info", "x_model_info"}
              /\ model_info = NoModelInfo
              /\ model_info'.defined
        /\ last_call'.op = "add_model" => model_info.defined
      ]_vars

C17_Witness ==
    /\ pc = "week_loop"
    /\ i_week = 2
    /\ Len(published) = 18
    /\ model_info = ModelInfoFromDatasetInfo(EmbeddingCols, CF1)
    /\ MODEL_ID \in service.models

\* the number of steps the image notebook can still take is bounded by Rank:
\* the cells in order, the weeks and days that remain, the batches that remain
\* in a running generate_embeddings call
Rank ==
    LET L == Len(dataloader)
        u == week_days - 1 - day
        weeks == Len(DriftTypes) - 1 - i_week
        G == CASE pc = "ge_enter" -> 2 * L + 4
               [] pc = "ge_loop" -> 2 * (L - i) + 3
               [] pc = "ge_build" -> 2
               [] pc = "ge_except" -> 1
               [] OTHER -> 0
        P(p) == CASE p \in {"done", "aborted"} -> 0
                  [] p = "week_loop" -> weeks * 1000 + 1
                  [] p = "day_loop" -> weeks * 1000 + 1 + 4 * u + 1
                  [] p = "publish" -> weeks * 1000 + 1 + 4 * u + 2
                  [] p = "stamp" -> weeks * 1000 + 1 + 4 * u + 3
                  [] p = "sample" -> weeks * 1000 + 1 + 4 * u + 4
                  [] p = "week_ret" -> weeks * 1000 + 1 + 4 * week_days + 2
                  [] p = "add_model" -> 4001
                  [] p = "model_info" -> 4002
                  [] p = "custom_feature" -> 4003
                  [] p = "upload_dataset" -> 4004
                  [] p = "baseline_ret" -> 4005
                  [] p = "baseline" -> 5000
                  [] p = "create_project" -> 5001
    IN IF pc \in {"ge_enter", "ge_loop", "ge_build", "ge_except"}
       THEN P(ge_return) + G
       ELSE P(pc)

\* the run has ended or the statement at pc can execute
CanStep ==
    \/ pc \in {"done", "aborted"}
    \/ pc \in {"create_project", "baseline", "baseline_ret", "upload_dataset",
               "custom_feature", "model_info", "add_model", "week_loop", "week_ret",
               "sample", "stamp", "publish", "ge_enter", "ge_build", "ge_except"}
    \/ pc = "ge_loop" /\ i <= Len(dataloader)
    \/ pc = "day_loop" /\ clock - StartClock <= MaxElapsed

\* C21: a run of the image publish cell in which every call returns ends, after
\* exactly 18 publish_events_batch calls, 6 per drift type in the order
\* original, blurred, brightness_reduced, and exactly 3 generate_embeddings
\* calls, one per drift type before that type's first batch.  Termination:
\* every step lowers the natural number Rank and leaves a state that has ended
\* or can step, so no statement repeats and the run reaches its end.
C21_PublishRunTerminates ==
    [][ /\ (pc = "week_loop" /\ pc' = "ge_enter") =>
              /\ i_week' = i_week + 1
              /\ i_week' \in 0..2
              /\ Len(published) = 6 * i_week'
        /\ (pc # "ge_enter" /\ pc' = "ge_enter") => pc \in {"baseline", "week_loop"}
        /\ published' # published =>
              /\ Len(published) < 18
              /\ published' = Append(published, published'[Len(published) + 1])
              /\ published'[Len(published) + 1].drift_type =
                     << "original", "blurred", "brightness_reduced"
                     >>[(Len(published) \div 6) + 1]
              /\ i_week = Len(published) \div 6
        /\ pc' = "done" => (Len(published) = 18 /\ i_week = 2 /\ error' = "")
        /\ Rank' < Rank
        /\ Rank' >= 0
        /\ CanStep'
        /\ (error' = "" /\ Rank' = 0) => pc' = "done"
      ]_vars

C21_Witness ==
    /\ pc = "done"
    /\ error = ""
    /\ Len(published) = 18
    /\ published[1].drift_type = "original"
    /\ published[18].drift_type = "brightness_reduced"

\* the batch sizes of the dataloader of the running call
BatchSizes == [b \in DOMAIN dataloader |-> Len(dataloader[b])]

\* the steps a generate_embeddings call can still take
GE_StepsLeft ==
    CASE pc = "ge_enter" -> 2 * Len(dataloader) + 4
      [] pc = "ge_loop" -> 2 * (Len(dataloader) - i) + 3
      [] pc = "ge_build" -> 2
      [] pc = "ge_except" -> 1
      [] OTHER -> 0

\* C22: for n >= 1 generate_embeddings makes as many forward passes as the
\* smallest k whose first k batch sizes sum to at least n, or as the dataloader
\* has batches when the sum never reaches n; it fetches no batch after that,
\* and the loop ends on every finite dataloader.
C22_StopsAtFirstBatchReachingN ==
    [][ /\ pc' \in {"ge_build", "returned"} =>
              LET reach == { k \in 1..Len(dataloader') :
                               SumSeq(Take(BatchSizes', k)) >= n' }
              IN /\ i' = IF reach = {} THEN Len(dataloader')
                         ELSE CHOOSE k \in reach : \A m \in reach : k <= m
                 /\ images_processed' = SumSeq(Take(BatchSizes', i'))
        /\ pc \in {"ge_build", "returned"} => i' = i
        /\ (pc = "ge_loop" /\ i' # i) => (i' = i + 1 /\ images_processed < n)
        /\ GE_StepsLeft' < GE_StepsLeft
        /\ GE_StepsLeft' >= 0
        /\ pc' = "ge_loop" => i' <= Len(dataloader')
      ]_vars

C22_Witness ==
    /\ pc = "returned"
    /\ Len(dataloader) = 3
    /\ BatchSizes = << 2, 1, 2 >>
    /\ n = 3
    /\ i = 2
    /\ images_processed = 3

\* C23: get_ig_baseline returns a frame with the rows, index and columns of
\* input_df whose 'sentence' values are all the empty string and whose other
\* columns equal input_df's, and it leaves input_df unmodified.
C23_IGBaseline ==
    [][ /\ input_df' = input_df
        /\ pc' = "ig_returned" =>
              /\ baseline_df'.ok
              /\ NRows(baseline_df') = NRows(input_df)
              /\ baseline_df'.index = input_df.index
              /\ Columns(baseline_df') = Columns(input_df)
              /\ \A b \in DOMAIN input_df.blocks :
                     IF input_df.blocks[b].columns = << "sentence" >>
                     THEN \A r \in 1..NRows(input_df) :
                              baseline_df'.blocks[b].vals[r] = ""
                     ELSE baseline_df'.blocks[b] = input_df.blocks[b]
      ]_vars

C23_Witness ==
    /\ pc = "ig_returned"
    /\ Columns(input_df) = << "polarity", "sentence" >>
    /\ input_df.index = << 9, 8 >>
    /\ ColumnVals(input_df, "sentence") = << "good", "" >>
    /\ ColumnVals(input_df, "polarity") = << "", "good" >>
    /\ ColumnVals(baseline_df, "sentence") = << "", "" >>

\* C24: the names each package.py uses match the schema its notebook registers
\* with add_model: the fairness package's output_columns equals the outputs
\* of model_info; the explainability package's OUTPUT_COL equals the outputs,
\* FEATURE_LABEL is the one registered feature, and MAX_SEQ_LENGTH equals the
\* sequence dimension of BATCH_INPUT_SHAPE_LIST.
C24_PackageMatchesSchema ==
    /\ (model_info.defined /\ model_info.dataset_id = F_DATASET_ID) =>
          /\ model_info.outputs = output_columns
          /\ model_info.outputs = << "Approve_probability_of_credit_request" >>
    /\ (model_info.defined /\ model_info.dataset_id = X_DATASET_ID) =>
          /\ model_info.outputs = OUTPUT_COL
          /\ model_info.outputs = << "sentiment" >>
          /\ model_info.features = << FEATURE_LABEL >>
          /\ features = << "sentence" >>
    /\ MAX_SEQ_LENGTH = BATCH_INPUT_SHAPE_LIST[1][2]
    /\ MAX_SEQ_LENGTH = 150

C24_Witness ==
    /\ pc = "f_run_fairness"
    /\ last_call.op = "add_model_artifact"
    /\ model_info.outputs = output_columns
    /\ << "model", "package.py" >> \in fs.files
    /\ F_MODEL_ID \in service.models

\* C25: when generate_embeddings returns normally the forward hook it
\* registered on fc[0] has been removed, so outside a call no hook is
\* registered and the number of hooks does not grow over the calls of a run.
C25_HookRemovedOnReturn ==
    pc \notin {"ge_enter", "ge_loop", "ge_build", "ge_except"} => hooks = 0

\* C26: in the NLP notebook the feature, target and output columns of the
\* model descriptor are pairwise disjoint: the feature list holds neither
\* 'target' nor 'predicted_score'.
C26_DisjointColumnRoles ==
    (model_info.defined /\ model_info.dataset_id = NLP_DATASET_ID) =>
        /\ model_info.target = "target"
        /\ model_info.outputs = << "predicted_score" >>
        /\ "target" \notin Range(model_info.features)
        /\ "predicted_score" \notin Range(model_info.features)
        /\ "target" \notin Range(features)
        /\ "predicted_score" \notin Range(features)

====
